---- MODULE Spec2Model ----
(***************************************************************************)
(* Model of src/src/tokenizer.py: the CharTokenizer class.                 *)
(*                                                                         *)
(* A character is modelled by its code point (ord), a Python str by the    *)
(* sequence of its code points, a dict by a function, and an Optional[int] *)
(* by a set that is empty (None) or holds the one integer.                 *)
(* One CharTokenizer instance is the state; every public method is an      *)
(* action that records the call and what it returned or raised.            *)
(***************************************************************************)
EXTENDS Integers, Sequences, FiniteSets, TLC

(* ------------------------------ bounds --------------------------------- *)
MaxCorpusLen == 3
MaxListLen == 2
MaxMinFreq == 2
MaxTextLen == 2
MaxIdsLen == 2

(* ------------------------- values and inputs --------------------------- *)
\* The characters inline texts are drawn from: "<", "a", "b".
Alphabet == {60, 97, 98}

\* "\n", the separator of line 36.
NL == 10

\* The literal keys of the special tokens, "<PAD>" and "<UNK>".
PAD == <<60, 80, 65, 68, 62>>
UNK == <<60, 85, 78, 75, 62>>

\* Optional[int]: None, or an integer.
None == {}
Some(i) == {i}

SeqsUpTo(S, n) == UNION {[1..k -> S] : k \in 0..n}

\* The file system the instance runs against (os.path.isfile, open().read()):
\* a file "a" holding "bab\n" and a file "b" holding "b"; nothing else exists.
Files == (<<97>> :> <<98, 97, 98, 10>>) @@ (<<98>> :> <<98>>)

isfile(p) == p \in DOMAIN Files

\* Elements a list argument of fit may hold: two paths of existing files, a
\* string that names no file, and a non-string.
ListElems == {[isstr |-> TRUE, s |-> <<97>>], [isstr |-> TRUE, s |-> <<98>>],
              [isstr |-> TRUE, s |-> <<97, 98>>], [isstr |-> FALSE, s |-> <<>>]}

\* texts_or_paths: a str, a list (a tuple takes the same branch), or a value
\* of another type.
Sources ==
    {[type |-> "str", s |-> s, items |-> <<>>] : s \in SeqsUpTo(Alphabet, MaxCorpusLen)}
    \cup {[type |-> "list", s |-> <<>>, items |-> l] : l \in SeqsUpTo(ListElems, MaxListLen)}
    \cup {[type |-> "other", s |-> <<>>, items |-> <<>>]}

MinFreqs == 0..MaxMinFreq
Texts == SeqsUpTo(Alphabet, MaxTextLen)
\* Ids offered to decode: every id a vocabulary of the model's inline corpora
\* can hold, and one more.
IdUniverse == 0..(Cardinality(Alphabet) + 2)
IdSeqs == SeqsUpTo(IdUniverse, MaxIdsLen)
Paths == {<<97>>, <<97, 98>>}

\* The global names the module binds before a method runs: its imports
\* (lines 1-4) and its class.  A name outside this set is unbound, and
\* evaluating it raises NameError.
ModuleNames == {"os", "Counter", "prefix", "List", "Union", "Iterable", "CharTokenizer"}
Unbound(name) == name \notin ModuleNames

(* ------------------------------ state ---------------------------------- *)
VARIABLES stoi, itos, pad_id, unk_id, vocab_size, call, ret, fits

fields == <<stoi, itos, pad_id, unk_id, vocab_size>>
vars == <<stoi, itos, pad_id, unk_id, vocab_size, call, ret, fits>>

\* The instance as one value.
Self == [stoi |-> stoi, itos |-> itos, pad_id |-> pad_id, unk_id |-> unk_id,
         vocab_size |-> vocab_size]

\* __init__
Fresh == [stoi |-> <<>>, itos |-> <<>>, pad_id |-> None, unk_id |-> None,
          vocab_size |-> 0]

\* What a call did: returned (exc = "none") or raised exception exc, whose
\* message is identified by msg.
NoExc == [exc |-> "none", msg |-> ""]
Raise(e, m) == [exc |-> e, msg |-> m]

\* Variant of is_fitted: an instance counts as fitted only with a pad_id.
is_fitted_needs_pad(st) == DOMAIN st.stoi # {} /\ st.pad_id # None

\* is_fitted: bool(self.stoi) and bool(self.itos)
is_fitted(st) == DOMAIN st.stoi # {} /\ DOMAIN st.itos # {}

(* ------------------------------- fit ----------------------------------- *)
RECURSIVE Join(_, _)
\* sep.join(parts)
Join(parts, sep) ==
    IF Len(parts) = 0 THEN <<>>
    ELSE IF Len(parts) = 1 THEN parts[1]
    ELSE parts[1] \o sep \o Join(Tail(parts), sep)

RECURSIVE ReadParts(_, _, _)
\* The loop of lines 29-33 from position k on: the first element that is no
\* str or names no file raises, otherwise the file's text is appended.
ReadParts(items, k, parts) ==
    IF k > Len(items) THEN [err |-> NoExc, parts |-> parts]
    ELSE IF ~items[k].isstr \/ ~isfile(items[k].s)
         THEN [err |-> Raise("ValueError", "Expected file path string"), parts |-> parts]
         ELSE ReadParts(items, k + 1, Append(parts, Files[items[k].s]))

\* Lines 22-38: the corpus string of texts_or_paths, or the ValueError.
ReadCorpus(src) ==
    IF src.type = "str"
    THEN [err |-> NoExc, corpus |-> IF isfile(src.s) THEN Files[src.s] ELSE src.s]
    ELSE IF src.type = "list"
    THEN LET r == ReadParts(src.items, 1, <<>>) IN
         IF r.err # NoExc THEN [err |-> r.err, corpus |-> <<>>]
         ELSE IF Len(r.parts) = 0
              THEN [err |-> Raise("ValueError", "No files provided"), corpus |-> <<>>]
              ELSE [err |-> NoExc, corpus |-> Join(r.parts, <<NL>>)]
    ELSE [err |-> Raise("ValueError", "Input should be a string"), corpus |-> <<>>]

\* Number of occurrences of ch in corpus.
Count(ch, corpus) == Cardinality({i \in DOMAIN corpus : corpus[i] = ch})

\* Counter(corpus).items(): one (ch, count) pair per distinct character, in
\* the order of first occurrence (dict insertion order).
CounterItems(corpus) ==
    LET first == SelectSeq([i \in DOMAIN corpus |-> i],
                           LAMBDA i : \A j \in 1..(i - 1) : corpus[j] # corpus[i])
    IN [k \in DOMAIN first |-> <<corpus[first[k]], Count(corpus[first[k]], corpus)>>]

\* Variant of KeyLess: the key is the count alone, without the tie-break.
KeyLessCountOnly(x, y) == 0 - x[2] < 0 - y[2]

\* Line 47's key (-count, ch), compared as Python compares tuples.
KeyLess(x, y) == (0 - x[2] < 0 - y[2]) \/ (x[2] = y[2] /\ x[1] < y[1])

RECURSIVE InsertSorted(_, _)
\* x placed behind every element whose key is not greater (stable).
InsertSorted(x, sorted) ==
    IF Len(sorted) = 0 THEN <<x>>
    ELSE IF KeyLess(x, Head(sorted)) THEN <<x>> \o sorted
    ELSE <<Head(sorted)>> \o InsertSorted(x, Tail(sorted))

RECURSIVE SortItems(_)
\* items.sort(key=...): a stable sort by KeyLess.
SortItems(items) ==
    IF Len(items) = 0 THEN <<>>
    ELSE InsertSorted(items[Len(items)], SortItems(SubSeq(items, 1, Len(items) - 1)))

\* A dict under construction is its (key, value) entries in insertion order.
HasKey(entries, key) == \E k \in DOMAIN entries : entries[k][1] = key

\* Lines 54-60: the two special tokens take ids 0 and 1 when requested.
SpecialEntries(include_specials) ==
    IF include_specials THEN <<<<PAD, 0>>, <<UNK, 0 + 1>>>> ELSE <<>>

RECURSIVE AssignIdsNoIncrement(_, _, _, _)
\* Variant of AssignIds: idx is not advanced after a character took it.
AssignIdsNoIncrement(items, k, entries, idx) ==
    IF k > Len(items) THEN entries
    ELSE IF ~HasKey(entries, <<items[k][1]>>)
         THEN AssignIdsNoIncrement(items, k + 1, Append(entries, <<<<items[k][1]>>, idx>>), idx)
         ELSE AssignIdsNoIncrement(items, k + 1, entries, idx)

RECURSIVE AssignIds(_, _, _, _)
\* Lines 61-64 from position k on: each character not yet a key takes idx.
AssignIds(items, k, entries, idx) ==
    IF k > Len(items) THEN entries
    ELSE IF ~HasKey(entries, <<items[k][1]>>)
         THEN AssignIds(items, k + 1, Append(entries, <<<<items[k][1]>>, idx>>), idx + 1)
         ELSE AssignIds(items, k + 1, entries, idx)

\* The dict of a list of entries with distinct keys.
DictOf(entries) ==
    [key \in {entries[k][1] : k \in DOMAIN entries} |->
        entries[CHOOSE k \in DOMAIN entries : entries[k][1] = key][2]]

\* {i: s for s, i in stoi.items()}: the last entry holding a value wins.
Invert(entries) ==
    [i \in {entries[k][2] : k \in DOMAIN entries} |->
        LET ks == {k \in DOMAIN entries : entries[k][2] = i}
        IN entries[CHOOSE k \in ks : \A j \in ks : j <= k][1]]

\* any(self.itos[self.stoi[s]] != s for s in self.stoi)
Inconsistent(st) == \E s \in DOMAIN st.stoi : st.itos[st.stoi[s]] # s

\* Lines 41-70 of fit: the vocabulary of a corpus.  The exception raised (or
\* none) and the instance afterwards.
BuildVocab(st, corpus, include_specials, min_freq) ==
    LET counts == CounterItems(corpus)
        items == SelectSeq(counts, LAMBDA x : x[2] >= min_freq)
    IN
    IF Len(items) = 0 /\ ~include_specials
    THEN [err |-> Raise("ValueError", "No characters meet the frequency threshold"), st |-> st]
    ELSE LET sorted == SortItems(items)
             specials == SpecialEntries(include_specials)
             entries == AssignIds(sorted, 1, specials, Len(specials))
             new == [stoi |-> DictOf(entries),
                     itos |-> Invert(entries),
                     pad_id |-> IF include_specials THEN Some(specials[1][2]) ELSE None,
                     unk_id |-> IF include_specials THEN Some(specials[2][2]) ELSE None,
                     vocab_size |-> Cardinality(DOMAIN DictOf(entries))]
         IN
    IF DOMAIN new.stoi = {} \/ DOMAIN new.itos = {} \/ Inconsistent(new)
    THEN [err |-> Raise("ValueError", "Internal mapping inconsistency"), st |-> new]
    ELSE [err |-> NoExc, st |-> new]

\* Variant of fit: the corpus is read before the instance is tested.
fit_reads_first(st, src, include_specials, min_freq) ==
    LET rc == ReadCorpus(src) IN
    IF rc.err # NoExc THEN [err |-> rc.err, st |-> st]
    ELSE IF is_fitted(st)
         THEN [err |-> Raise("ValueError", "Tokenizer is already fitted"), st |-> st]
         ELSE BuildVocab(st, rc.corpus, include_specials, min_freq)

\* fit: the exception raised (or none) and the instance afterwards.
fit(st, src, include_specials, min_freq) ==
    IF is_fitted(st)
    THEN [err |-> Raise("ValueError", "Tokenizer is already fitted"), st |-> st]
    ELSE LET rc == ReadCorpus(src) IN
         IF rc.err # NoExc THEN [err |-> rc.err, st |-> st]
         ELSE BuildVocab(st, rc.corpus, include_specials, min_freq)

(* --------------------------- encode, decode ---------------------------- *)
RECURSIVE Lookup(_, _, _, _)
\* [self.stoi[ch] for ch in text] from position k on: the first character
\* that is no key raises KeyError and no list is returned.
Lookup(st, text, k, ids) ==
    IF k > Len(text) THEN [err |-> NoExc, val |-> ids]
    ELSE IF <<text[k]>> \notin DOMAIN st.stoi
         THEN [err |-> Raise("KeyError", "character"), val |-> <<>>]
         ELSE Lookup(st, text, k + 1, Append(ids, st.stoi[<<text[k]>>]))

\* [self.stoi.get(ch, self.unk_id) for ch in text]
LookupOrUnk(st, text) ==
    [k \in DOMAIN text |->
        IF <<text[k]>> \in DOMAIN st.stoi THEN st.stoi[<<text[k]>>]
        ELSE CHOOSE u \in st.unk_id : TRUE]

\* Variant of encode: strict is ignored when an unk_id is set.
encode_ignores_strict(st, text, strict) ==
    IF ~is_fitted(st) THEN [err |-> Raise("RuntimeError", "Tokenizer not fitted"), val |-> <<>>]
    ELSE IF st.unk_id = None THEN Lookup(st, text, 1, <<>>)
    ELSE [err |-> NoExc, val |-> LookupOrUnk(st, text)]

encode(st, text, strict) ==
    IF ~is_fitted(st) THEN [err |-> Raise("RuntimeError", "Tokenizer not fitted"), val |-> <<>>]
    ELSE IF strict THEN Lookup(st, text, 1, <<>>)
    ELSE IF st.unk_id = None THEN Lookup(st, text, 1, <<>>)
    ELSE [err |-> NoExc, val |-> LookupOrUnk(st, text)]

RECURSIVE JoinItosPrepends(_, _, _, _)
\* Variant of JoinItos: each piece is put in front of the output.
JoinItosPrepends(st, ids, k, out) ==
    IF k > Len(ids) THEN [err |-> NoExc, val |-> out]
    ELSE IF ids[k] \notin DOMAIN st.itos
         THEN [err |-> Raise("KeyError", "id"), val |-> <<>>]
         ELSE JoinItosPrepends(st, ids, k + 1, st.itos[ids[k]] \o out)

RECURSIVE JoinItosSkipsMissing(_, _, _, _)
\* Variant of JoinItos: self.itos.get(i, ''), an id that is no key adds
\* nothing.
JoinItosSkipsMissing(st, ids, k, out) ==
    IF k > Len(ids) THEN [err |-> NoExc, val |-> out]
    ELSE IF ids[k] \notin DOMAIN st.itos
         THEN JoinItosSkipsMissing(st, ids, k + 1, out)
         ELSE JoinItosSkipsMissing(st, ids, k + 1, out \o st.itos[ids[k]])

RECURSIVE JoinItos(_, _, _, _)
\* ''.join(self.itos[i] for i in ids) from position k on: the first id that
\* is no key raises KeyError and no string is returned.
JoinItos(st, ids, k, out) ==
    IF k > Len(ids) THEN [err |-> NoExc, val |-> out]
    ELSE IF ids[k] \notin DOMAIN st.itos
         THEN [err |-> Raise("KeyError", "id"), val |-> <<>>]
         ELSE JoinItos(st, ids, k + 1, out \o st.itos[ids[k]])

\* Variant of NotSpecial: only pad_id is tested.
NotPad(st, i) == i \notin st.pad_id

\* i != self.pad_id and i != self.unk_id
NotSpecial(st, i) == i \notin st.pad_id /\ i \notin st.unk_id

decode(st, token_ids, skip_specials) ==
    IF ~is_fitted(st) THEN [err |-> Raise("RuntimeError", "Tokenizer not fitted"), val |-> <<>>]
    ELSE IF skip_specials /\ st.pad_id # None /\ st.unk_id # None
    THEN JoinItos(st, SelectSeq(token_ids, LAMBDA i : NotSpecial(st, i)), 1, <<>>)
    ELSE JoinItos(st, token_ids, 1, <<>>)

get_vocab_size(st) ==
    IF ~is_fitted(st) THEN [err |-> Raise("RuntimeError", "Tokenizer not fitted"), val |-> 0]
    ELSE [err |-> NoExc, val |-> st.vocab_size]

(* ----------------------------- save, load ------------------------------ *)
\* save: an unfitted instance raises at line 99.  A fitted one builds the
\* payload and the parent directory and then, at line 114, evaluates the name
\* tempfile, which the module does not bind: NameError, before any file is
\* created or written.  No other case exists, so lines 115-125 never run.
save(st, path) ==
    CASE ~is_fitted(st) -> [err |-> Raise("RuntimeError", "Tokenizer not fitted"), st |-> st]
      [] is_fitted(st) /\ Unbound("tempfile") ->
            [err |-> Raise("NameError", "tempfile"), st |-> st]

\* Variant of load: the instance is reset before the path is tested.
load_resets_first(st, path) ==
    CASE ~isfile(path) -> [err |-> Raise("FileNotFoundError", "No such file"), st |-> Fresh]
      [] isfile(path) /\ Unbound("json") -> [err |-> Raise("NameError", "json"), st |-> Fresh]

\* load: a path that names no file raises at line 133.  Otherwise the file is
\* opened and line 136 evaluates the name json, which the module does not
\* bind: NameError, before anything is parsed or assigned.  No other case
\* exists, so lines 139-154 never run.
load(st, path) ==
    CASE ~isfile(path) -> [err |-> Raise("FileNotFoundError", "No such file"), st |-> st]
      [] isfile(path) /\ Unbound("json") -> [err |-> Raise("NameError", "json"), st |-> st]

\* from_file: load on a new instance; what load raises propagates.
from_file(path) == load(Fresh, path)

(* ------------------------------ actions -------------------------------- *)
Idle == [op |-> "idle"]
NoRet == [err |-> NoExc, val |-> <<>>]

Init ==
    /\ stoi = Fresh.stoi
    /\ itos = Fresh.itos
    /\ pad_id = Fresh.pad_id
    /\ unk_id = Fresh.unk_id
    /\ vocab_size = Fresh.vocab_size
    /\ call = Idle
    /\ ret = NoRet
    /\ fits = 0

\* The instance's fields become those of st.
Becomes(st) ==
    /\ stoi' = st.stoi
    /\ itos' = st.itos
    /\ pad_id' = st.pad_id
    /\ unk_id' = st.unk_id
    /\ vocab_size' = st.vocab_size

\* fits counts the fit calls that returned without raising (history only).
Fit(src, include_specials, min_freq) ==
    /\ call = Idle
    /\ LET r == fit(Self, src, include_specials, min_freq) IN
        /\ Becomes(r.st)
        /\ ret' = [err |-> r.err, val |-> <<>>]
        /\ fits' = IF r.err = NoExc /\ fits < 2 THEN fits + 1 ELSE fits
    /\ call' = [op |-> "fit", src |-> src, include_specials |-> include_specials,
                min_freq |-> min_freq]

Encode(text, strict) ==
    /\ call = Idle
    /\ ret' = encode(Self, text, strict)
    /\ call' = [op |-> "encode", text |-> text, strict |-> strict]
    /\ UNCHANGED <<fields, fits>>

Decode(token_ids, skip_specials) ==
    /\ call = Idle
    /\ ret' = decode(Self, token_ids, skip_specials)
    /\ call' = [op |-> "decode", token_ids |-> token_ids, skip_specials |-> skip_specials]
    /\ UNCHANGED <<fields, fits>>

GetVocabSize ==
    /\ call = Idle
    /\ ret' = get_vocab_size(Self)
    /\ call' = [op |-> "get_vocab_size"]
    /\ UNCHANGED <<fields, fits>>

Save(path) ==
    /\ call = Idle
    /\ LET r == save(Self, path) IN
        /\ Becomes(r.st)
        /\ ret' = [err |-> r.err, val |-> <<>>]
    /\ call' = [op |-> "save", path |-> path]
    /\ UNCHANGED fits

Load(path) ==
    /\ call = Idle
    /\ LET r == load(Self, path) IN
        /\ Becomes(r.st)
        /\ ret' = [err |-> r.err, val |-> <<>>]
    /\ call' = [op |-> "load", path |-> path]
    /\ UNCHANGED fits

\* The new instance, when one is returned, is the call's value.
FromFile(path) ==
    /\ call = Idle
    /\ LET r == from_file(path) IN
        ret' = [err |-> r.err, val |-> IF r.err = NoExc THEN r.st ELSE Fresh]
    /\ call' = [op |-> "from_file", path |-> path]
    /\ UNCHANGED <<fields, fits>>

\* Control is back with the caller, who may make the next call.
Return ==
    /\ call # Idle
    /\ call' = Idle
    /\ ret' = NoRet
    /\ UNCHANGED <<fields, fits>>

Next ==
    \/ \E src \in Sources, inc \in BOOLEAN, mf \in MinFreqs : Fit(src, inc, mf)
    \/ \E text \in Texts, strict \in BOOLEAN : Encode(text, strict)
    \/ \E ids \in IdSeqs, skip \in BOOLEAN : Decode(ids, skip)
    \/ GetVocabSize
    \/ \E path \in Paths : Save(path)
    \/ \E path \in Paths : Load(path)
    \/ \E path \in Paths : FromFile(path)
    \/ Return

Spec == Init /\ [][Next]_vars

(* ------------------------------ properties ----------------------------- *)
\* Both mappings are non-empty.
Fitted == DOMAIN stoi # {} /\ DOMAIN itos # {}

Returned == ret.err = NoExc

\* The characters of a string that are keys of char_to_id.
InVocab(ch) == <<ch>> \in DOMAIN stoi

\* C1: in every state an instance reaches, through calls that return and
\* calls that raise, itos is the exact inverse of stoi: itos[stoi[c]] = c for
\* every key c of stoi and stoi[itos[i]] = i for every key i of itos.
C1_Bijection ==
    /\ \A c \in DOMAIN stoi : stoi[c] \in DOMAIN itos /\ itos[stoi[c]] = c
    /\ \A i \in DOMAIN itos : itos[i] \in DOMAIN stoi /\ stoi[itos[i]] = i

\* A fit with specials has returned with at least two characters in the
\* vocabulary.
C1_Witness ==
    /\ call.op = "fit" /\ Returned
    /\ PAD \in DOMAIN stoi /\ vocab_size >= 4

\* C2: a fit or load call that raises leaves stoi, itos, pad_id, unk_id and
\* vocab_size exactly as they were before the call.
C2_AllOrNothing ==
    [][(call'.op \in {"fit", "load"} /\ ret'.err # NoExc) => fields' = fields]_vars

\* A load has raised on a fitted instance.
C2_Witness ==
    /\ call.op = "load" /\ ~Returned
    /\ Fitted /\ vocab_size >= 3

\* C3: on a fitted instance, for every text whose characters are all keys of
\* stoi, encode (strict or not) returns ids that decode, with skip_specials
\* true and false, back to the text.
C3_RoundTrip ==
    (call.op = "encode" /\ Fitted /\ \A k \in DOMAIN call.text : InVocab(call.text[k]))
    => /\ Returned
       /\ \A k \in DOMAIN ret.val : ret.val[k] \notin (pad_id \cup unk_id)
       /\ \A skip \in BOOLEAN :
             decode(Self, ret.val, skip) = [err |-> NoExc, val |-> call.text]

\* An encode of a text of two different in-vocabulary characters has
\* returned on an instance fitted with specials.
C3_Witness ==
    /\ call.op = "encode" /\ Returned /\ Fitted /\ pad_id # None
    /\ Len(call.text) >= 2 /\ call.text[1] # call.text[2]
    /\ \A k \in DOMAIN call.text : InVocab(call.text[k])

\* C4: on a fitted instance, decode of a sequence holding at least one id
\* that is no key of itos raises KeyError, with skip_specials true and false,
\* and returns no string.
C4_UnknownIdRaises ==
    (call.op = "decode" /\ Fitted
        /\ \E k \in DOMAIN call.token_ids : call.token_ids[k] \notin DOMAIN itos)
    => ret.err.exc = "KeyError" /\ ret.val = <<>>

\* A decode that skips specials, of a known id followed by an unknown one,
\* has raised KeyError on an instance fitted with specials.
C4_Witness ==
    /\ call.op = "decode" /\ call.skip_specials /\ Fitted /\ pad_id # None
    /\ Len(call.token_ids) = 2
    /\ call.token_ids[1] \in DOMAIN itos /\ call.token_ids[2] \notin DOMAIN itos
    /\ ret.err.exc = "KeyError"

RECURSIVE Concat(_)
\* The concatenation of a sequence of strings.
Concat(strs) == IF Len(strs) = 0 THEN <<>> ELSE Head(strs) \o Concat(Tail(strs))

\* What an id is rendered as: a special as its marker, any other id as its
\* character.
Rendered(i) == IF i \in pad_id THEN PAD ELSE IF i \in unk_id THEN UNK ELSE itos[i]

\* C5: on a fitted instance, decode of ids that are all keys of itos returns:
\* with skip_specials true and both pad_id and unk_id set, the in-order
\* concatenation over the positions whose id is neither pad_id nor unk_id;
\* otherwise the in-order concatenation over every position, a special
\* rendered as "<PAD>" or "<UNK>".
C5_DecodeSkipsSpecials ==
    (call.op = "decode" /\ Fitted
        /\ \A k \in DOMAIN call.token_ids : call.token_ids[k] \in DOMAIN itos)
    => LET ids == call.token_ids
           skipping == call.skip_specials /\ pad_id # None /\ unk_id # None
           kept == IF skipping
                   THEN SelectSeq(ids, LAMBDA i : i \notin (pad_id \cup unk_id))
                   ELSE ids
       IN /\ Returned
          /\ ret.val = Concat([k \in DOMAIN kept |-> Rendered(kept[k])])

\* A decode that skips specials has returned for ids holding unk_id first
\* and a character's id after it.
C5_Witness ==
    /\ call.op = "decode" /\ call.skip_specials /\ Returned /\ Fitted
    /\ Len(call.token_ids) = 2
    /\ call.token_ids[1] \in unk_id
    /\ call.token_ids[2] \in DOMAIN itos /\ call.token_ids[2] \notin (pad_id \cup unk_id)
    /\ Len(ret.val) = 1

\* The corpus string of the fit call just made.
CallCorpus == ReadCorpus(call.src).corpus

\* The characters that occur in the corpus at least min_freq times.
Survivors(corpus, min_freq) ==
    {ch \in {corpus[i] : i \in DOMAIN corpus} : Count(ch, corpus) >= min_freq}

\* C6: after a fit that returned, the keys of stoi other than the specials
\* are exactly the characters of the corpus whose count is at least
\* min_freq; the ids are 0..vocab_size-1 without gaps; with include_specials
\* pad_id = 0 and unk_id = 1 and the characters' ids start at 2, without it
\* pad_id and unk_id are None and the ids start at 0; of two surviving
\* characters the one with the higher count, or on equal counts the lower
\* code point, has the lower id; and a second new instance fitted with the
\* same arguments gets the same stoi.
C6_FitVocabulary ==
    (call.op = "fit" /\ Returned)
    => LET corpus == CallCorpus
           surv == Survivors(corpus, call.min_freq)
           specials == IF call.include_specials THEN {PAD, UNK} ELSE {}
           n(ch) == Count(ch, corpus)
       IN /\ DOMAIN stoi = specials \cup {<<ch>> : ch \in surv}
          /\ vocab_size = Cardinality(DOMAIN stoi)
          /\ {stoi[key] : key \in DOMAIN stoi} = 0..(vocab_size - 1)
          /\ call.include_specials
                => /\ pad_id = Some(0) /\ unk_id = Some(1)
                   /\ stoi[PAD] = 0 /\ stoi[UNK] = 1
                   /\ \A ch \in surv : stoi[<<ch>>] >= 2
          /\ ~call.include_specials => pad_id = None /\ unk_id = None
          /\ \A c \in surv, d \in surv :
                stoi[<<c>>] < stoi[<<d>>] <=> (n(c) > n(d) \/ (n(c) = n(d) /\ c < d))
          /\ stoi = fit(Fresh, call.src, call.include_specials, call.min_freq).st.stoi

\* A fit with specials has returned on a corpus with three surviving
\* characters, two of equal count and one of a higher count whose code
\* point is not the lowest, and with a character removed by min_freq or not.
C6_Witness ==
    /\ call.op = "fit" /\ Returned /\ call.include_specials
    /\ LET surv == Survivors(CallCorpus, call.min_freq) IN
        \E c \in surv, d \in surv, e \in surv :
            /\ Count(c, CallCorpus) = Count(d, CallCorpus) /\ c < d
            /\ Count(e, CallCorpus) > Count(c, CallCorpus) /\ e > c
            /\ stoi[<<e>>] = 2 /\ stoi[<<c>>] = 3 /\ stoi[<<d>>] = 4

\* C7: on a fitted instance, an encode that returns gives one id per
\* character in order, the character's own id when it is a key of stoi; with
\* strict false and unk_id set encode always returns, with unk_id at every
\* character that is no key; with strict true, or with unk_id None, encode
\* raises KeyError exactly when some character is no key, and then returns
\* no ids.
C7_Encode ==
    (call.op = "encode" /\ Fitted)
    => LET text == call.text
           lenient == ~call.strict /\ unk_id # None
       IN /\ Returned
             => /\ Len(ret.val) = Len(text)
                /\ \A k \in DOMAIN text : InVocab(text[k]) => ret.val[k] = stoi[<<text[k]>>]
          /\ lenient
             => /\ Returned
                /\ \A k \in DOMAIN text : ~InVocab(text[k]) => ret.val[k] \in unk_id
          /\ ~lenient
             => /\ ret.err.exc \in {"none", "KeyError"}
                /\ ret.err.exc = "KeyError" <=> \E k \in DOMAIN text : ~InVocab(text[k])
                /\ ret.err.exc = "KeyError" => ret.val = <<>>

\* A non-strict encode has returned for a text holding a character that is a
\* key and one that is not.
C7_Witness ==
    /\ call.op = "encode" /\ ~call.strict /\ Fitted /\ Returned
    /\ \E j \in DOMAIN call.text, k \in DOMAIN call.text :
            InVocab(call.text[j]) /\ ~InVocab(call.text[k]) /\ ret.val[k] \in unk_id

\* C8: on a fitted instance save(path) returns, and from_file(path) then
\* returns a new instance with the same stoi, pad_id, unk_id and vocab_size.
C8_PersistRestore ==
    (call.op = "save" /\ Fitted)
    => /\ Returned
       /\ LET r == from_file(call.path) IN
            /\ r.err = NoExc
            /\ r.st.stoi = stoi /\ r.st.pad_id = pad_id /\ r.st.unk_id = unk_id
            /\ r.st.vocab_size = vocab_size

\* C9: a fit call on an instance whose two mappings are non-empty raises the
\* already-fitted ValueError, whatever the corpus source and parameters (also
\* for a source that is itself invalid), and changes no field.
C9_RefitRejected ==
    [][(Fitted /\ call'.op = "fit")
        => (ret'.err = Raise("ValueError", "Tokenizer is already fitted") /\ fields' = fields)]_vars

\* A fit whose source is no str and no list has been rejected as already
\* fitted.
C9_Witness ==
    /\ call.op = "fit" /\ call.src.type = "other" /\ Fitted
    /\ ret.err = Raise("ValueError", "Tokenizer is already fitted")

\* C10: once a fit call has returned on the instance, every later fit call
\* raises, whatever calls were made in between, and no call other than load
\* changes stoi or itos.
C10_FitAtMostOnce ==
    [][fits >= 1
        => /\ call'.op = "fit" => (ret'.err # NoExc /\ fits' = fits)
           /\ call'.op # "load" => (stoi' = stoi /\ itos' = itos)]_vars

\* A fit has been rejected on an instance that an earlier fit, without
\* specials, had fitted.
C10_Witness ==
    /\ fits = 1 /\ call.op = "fit" /\ ~Returned
    /\ pad_id = None /\ Fitted

====
